---------------------------- MODULE Spec2Model ----------------------------
(***************************************************************************)
(* The Marlin demo harness: the three scripts that each define the global  *)
(* MarlinSimulator (src/marlin-simulator.js, src/unnamed/part_000 and      *)
(* src/unnamed/part_001), their four pipeline stages and their constraint  *)
(* validators.                                                             *)
(*                                                                         *)
(* JavaScript values are records [t, n, s]: t is the type tag, n the       *)
(* number (t = "num"), s the characters (t = "str").  Messages built with  *)
(* template strings are records [k, args]: k names the template and args   *)
(* holds the interpolated values in the order the template writes them.    *)
(***************************************************************************)
EXTENDS Integers, Sequences, FiniteSets, TLC

VARIABLES
    impl,                \* which script defined window.MarlinSimulator
    universalSRS,        \* this.universalSRS      (marlin-simulator.js)
    indexKeys,           \* this.indexKeys         (marlin-simulator.js)
    proof,               \* this.proof             (marlin-simulator.js)
    currentConstraints,  \* this.currentConstraints
    currentVariables,    \* this.currentVariables
    executionLog,        \* this.executionLog      (part_000, part_001)
    call                 \* the last call: [op, in, out, done]; out is
                         \* the value it returned once done

vars == <<impl, universalSRS, indexKeys, proof, currentConstraints,
          currentVariables, executionLog, call>>

---------------------------------------------------------------------------
(* Bounds of the model *)

\* numeric literals range over 0..MaxNum
MaxNum == 2
\* constraint lists built from ConstraintPool have at most MaxLen entries
MaxLen == 2
\* the execution log is followed up to MaxLog entries
MaxLog == 3

---------------------------------------------------------------------------
(* JavaScript values *)

Undef == [t |-> "undef", n |-> 0, s |-> ""]
Null == [t |-> "null", n |-> 0, s |-> ""]
NaN == [t |-> "nan", n |-> 0, s |-> ""]
Num(k) == [t |-> "num", n |-> k, s |-> ""]
Str(x) == [t |-> "str", n |-> 0, s |-> x]

\* ToBoolean: undefined, null, NaN, 0 and '' are falsy
Falsy(v) ==
    \/ v.t \in {"undef", "null", "nan"}
    \/ v.t = "num" /\ v.n = 0
    \/ v.t = "str" /\ v.s = ""

\* v || d
OrElse(v, d) == IF Falsy(v) THEN d ELSE v

\* a === b   (no coercion; NaN equals nothing)
StrictEq(a, b) == a.t = b.t /\ a.t # "nan" /\ a = b

\* parseFloat on the strings of the model
ParseFloat(s) ==
    CASE s = "0" -> Num(0)
      [] s = "1" -> Num(1)
      [] s = "2" -> Num(2)
      [] OTHER -> NaN

\* ToNumber, as the operator * applies it to its operands
ToNumber(v) ==
    CASE v.t = "num" -> v
      [] v.t = "null" -> Num(0)
      [] v.t = "str" -> IF v.s = "" THEN Num(0) ELSE ParseFloat(v.s)
      [] OTHER -> NaN

\* a * b
Mul(a, b) ==
    LET x == ToNumber(a)
        y == ToNumber(b)
    IN IF x.t = "nan" \/ y.t = "nan" THEN NaN ELSE Num(x.n * y.n)

\* a message: template k with the interpolated values args
Msg(k, args) == [k |-> k, args |-> args]

---------------------------------------------------------------------------
(* part_000: MarlinSimulator extends RealMarlinSystem -- the validators *)

\* evaluateExpression that tries parseFloat before the variable lookup
evaluateExpression_ParseFirst(expr, variables) ==
    IF expr.t \in {"num", "nan"} THEN expr
    ELSE IF expr.t = "str"
         THEN LET num == ParseFloat(expr.s)
              IN IF num.t # "nan" THEN num
                 ELSE IF expr.s \in DOMAIN variables THEN variables[expr.s]
                 ELSE Num(0)
         ELSE Num(0)

\* evaluateExpression(expr, variables); variables is a function on its
\* own property names
evaluateExpression(expr, variables) ==
    IF expr.t \in {"num", "nan"} THEN expr
    ELSE IF expr.t = "str"
         THEN IF expr.s \in DOMAIN variables
              THEN variables[expr.s]
              ELSE LET num == ParseFloat(expr.s)
                   IN IF num.t # "nan" THEN num ELSE Num(0)
         ELSE Num(0)

\* if (!constraint.left || !constraint.right || !constraint.output)
RealIncomplete(constraint) ==
    Falsy(constraint.left) \/ Falsy(constraint.right) \/ Falsy(constraint.output)

\* the body of validateCustomCircuit's forEach callback: the errors that
\* constraint number index (1-based) pushes
RealCustomStep(constraint, index, variables) ==
    IF RealIncomplete(constraint)
    THEN << Msg("Incomplete", <<Num(index)>>) >>
    ELSE LET leftVal == evaluateExpression(constraint.left, variables)
             rightVal == evaluateExpression(constraint.right, variables)
             outputVal == evaluateExpression(constraint.output, variables)
         IN IF /\ StrictEq(leftVal, Num(1))
               /\ StrictEq(rightVal, Num(1))
               /\ StrictEq(outputVal, Num(0))
            THEN << Msg("Contradiction", <<Num(index)>>) >>
            ELSE IF StrictEq(leftVal, Num(0)) /\ ~StrictEq(outputVal, Num(0))
            THEN << Msg("ZeroTimes", <<Num(index), outputVal>>) >>
            ELSE IF ~StrictEq(Mul(leftVal, rightVal), outputVal)
            THEN << Msg("Mismatch", <<Num(index), leftVal, rightVal,
                                      Mul(leftVal, rightVal), outputVal>>) >>
            ELSE << >>

\* forEach that stops at the first constraint that pushes an error
RECURSIVE RealCustomLoop_StopAtFirst(_, _, _, _)
RealCustomLoop_StopAtFirst(constraints, i, variables, errors) ==
    IF i > Len(constraints) \/ errors # << >> THEN errors
    ELSE RealCustomLoop_StopAtFirst(constraints, i + 1, variables,
             errors \o RealCustomStep(constraints[i], i, variables))

\* constraints.forEach(...) from entry i on, errors being the array so far
RECURSIVE RealCustomLoop(_, _, _, _)
RealCustomLoop(constraints, i, variables, errors) ==
    IF i > Len(constraints) THEN errors
    ELSE RealCustomLoop(constraints, i + 1, variables,
                        errors \o RealCustomStep(constraints[i], i, variables))

\* validateCustomCircuit(variables, constraints, circuitType)
RealValidateCustomCircuit(variables, constraints) ==
    LET errors == RealCustomLoop(constraints, 1, variables, << >>)
    IN [isValid |-> Len(errors) = 0, errors |-> errors]

\* the body of validateMultiplicationCircuit's forEach callback
RealMultiplicationStep(constraint, index, variables) ==
    IF RealIncomplete(constraint)
    THEN << Msg("Incomplete", <<Num(index)>>) >>
    ELSE LET leftVal == evaluateExpression(constraint.left, variables)
             rightVal == evaluateExpression(constraint.right, variables)
             outputVal == evaluateExpression(constraint.output, variables)
             actualResult == Mul(leftVal, rightVal)
         IN IF ~StrictEq(actualResult, outputVal)
            THEN << Msg("Mismatch", <<Num(index), leftVal, rightVal,
                                      actualResult, outputVal>>) >>
            ELSE << >>

RECURSIVE RealMultiplicationLoop(_, _, _, _)
RealMultiplicationLoop(constraints, i, variables, errors) ==
    IF i > Len(constraints) THEN errors
    ELSE RealMultiplicationLoop(constraints, i + 1, variables,
             errors \o RealMultiplicationStep(constraints[i], i, variables))

\* validateMultiplicationCircuit(variables, constraints)
RealValidateMultiplicationCircuit(variables, constraints) ==
    IF Len(constraints) = 0
    THEN [isValid |-> FALSE, errors |-> << Msg("NoConstraints", << >>) >>]
    ELSE LET errors == RealMultiplicationLoop(constraints, 1, variables, << >>)
         IN [isValid |-> Len(errors) = 0, errors |-> errors]

\* variables.<name> || 0
PropOrZero(variables, name) ==
    OrElse(IF name \in DOMAIN variables THEN variables[name] ELSE Undef, Num(0))

\* validateQuadraticCircuit(variables, constraints)
RealValidateQuadraticCircuit(variables, constraints) ==
    LET a == PropOrZero(variables, "a")
        b == PropOrZero(variables, "b")
        c == PropOrZero(variables, "c")
        aa == Mul(a, a)
        bb == Mul(b, b)
        expected == IF aa.t = "nan" \/ bb.t = "nan" THEN NaN
                    ELSE Num(aa.n + bb.n)
        actual == Mul(c, c)
        errors == IF ~StrictEq(expected, actual)
                  THEN << Msg("Pythagoras", <<a, b, expected, c, actual>>) >>
                  ELSE << >>
    IN [isValid |-> Len(errors) = 0, errors |-> errors]

\* validateCircuitConstraints(variables, constraints, circuitType)
RealValidateCircuitConstraints(variables, constraints, circuitType) ==
    IF circuitType = "multiplication"
    THEN RealValidateMultiplicationCircuit(variables, constraints)
    ELSE IF circuitType = "quadratic"
    THEN RealValidateQuadraticCircuit(variables, constraints)
    ELSE RealValidateCustomCircuit(variables, constraints)

\* the forEach callback of validateCustomCircuit when variables is
\* undefined: evaluateExpression throws on the first string operand, at
\* variables.hasOwnProperty, and the callback's catch pushes the error
RealCustomStepUnbound(constraint, index) ==
    IF RealIncomplete(constraint)
    THEN << Msg("Incomplete", <<Num(index)>>) >>
    ELSE IF "str" \in {constraint.left.t, constraint.right.t, constraint.output.t}
    THEN << Msg("EvaluationError", <<Num(index), Str("TypeError")>>) >>
    ELSE RealCustomStep(constraint, index, << >>)

RECURSIVE RealCustomLoopUnbound(_, _, _)
RealCustomLoopUnbound(constraints, i, errors) ==
    IF i > Len(constraints) THEN errors
    ELSE RealCustomLoopUnbound(constraints, i + 1,
             errors \o RealCustomStepUnbound(constraints[i], i))

\* validateCircuitConstraints(variables, constraints, circuitType) when
\* variables or constraints may be undefined: the call throws a TypeError
\* where it reads a property of the undefined argument outside a try block,
\* and returns {isValid, errors} otherwise
RealValidateUnchecked(variables, noVariables, constraints, noConstraints, circuitType) ==
    LET threw == [thrown |-> "TypeError"]
    IN CASE circuitType = "multiplication" ->
              IF noConstraints THEN threw
              ELSE IF Len(constraints) = 0
              THEN RealValidateMultiplicationCircuit(variables, constraints)
              ELSE IF noVariables THEN threw
              ELSE RealValidateMultiplicationCircuit(variables, constraints)
         [] circuitType = "quadratic" ->
              IF noVariables THEN threw
              ELSE RealValidateQuadraticCircuit(variables, constraints)
         [] OTHER ->
              IF noConstraints THEN threw
              ELSE IF noVariables
              THEN LET errors == RealCustomLoopUnbound(constraints, 1, << >>)
                   IN [isValid |-> Len(errors) = 0, errors |-> errors]
              ELSE RealValidateCustomCircuit(variables, constraints)

---------------------------------------------------------------------------
(* marlin-simulator.js: MarlinSimulator -- the validators.  A validator    *)
(* returns [valid, reason]; the reason '' is EmptyStr.                     *)

EmptyStr == Msg("", << >>)

Valid == [valid |-> TRUE, reason |-> EmptyStr]
Invalid(reason) == [valid |-> FALSE, reason |-> reason]

\* a JavaScript object with the own properties DOMAIN p
Obj(p) == [t |-> "obj", p |-> p]

\* obj.name, for obj an object
Prop(obj, name) == IF name \in DOMAIN obj.p THEN obj.p[name] ELSE Undef

\* reading a property of undefined or null throws a TypeError
Nullish(v) == v.t \in {"undef", "null"}

\* Math.abs(x - y) > 0.001; on integers the difference exceeds the
\* tolerance exactly when the operands differ, and every comparison with
\* NaN is false
ExceedsTolerance(x, y) ==
    LET a == ToNumber(x)
        b == ToNumber(y)
    IN a.t # "nan" /\ b.t # "nan" /\ a.n # b.n

\* validateMultiplicationCircuit(witness, publicInput)
SimValidateMultiplicationCircuit(witness, publicInput) ==
    IF Nullish(witness) \/ Nullish(publicInput)
    THEN Invalid(Msg("InvalidWitnessFormat", <<Str("TypeError")>>))
    ELSE LET a == OrElse(Prop(witness, "a"), Num(0))
             b == OrElse(Prop(witness, "b"), Num(0))
             expectedC == OrElse(Prop(publicInput, "c"), Num(0))
             actualC == Mul(a, b)
         IN IF ExceedsTolerance(actualC, expectedC)
            THEN Invalid(Msg("MultiplicationFailed", <<a, b, actualC, expectedC>>))
            ELSE Valid

\* Math.sqrt(a * a + b * b) compared with c up to 0.001: on the small
\* integers of the model, sqrt(s) is within 0.001 of c exactly when c >= 0
\* and c * c = s
SqrtDiffers(s, c) == ~(c >= 0 /\ c * c = s)

\* validateQuadraticCircuit(witness, publicInput)
SimValidateQuadraticCircuit(witness, publicInput) ==
    IF Nullish(witness) \/ Nullish(publicInput)
    THEN Invalid(Msg("InvalidQuadratic", <<Str("TypeError")>>))
    ELSE LET a == ToNumber(OrElse(Prop(witness, "sideA"), Num(0)))
             b == ToNumber(OrElse(Prop(witness, "sideB"), Num(0)))
             given == Prop(publicInput, "c")
         IN IF a.t = "nan" \/ b.t = "nan" \/ Falsy(given)
               \/ ToNumber(given).t = "nan"
            THEN Valid
            ELSE IF SqrtDiffers(a.n * a.n + b.n * b.n, ToNumber(given).n)
            THEN Invalid(Msg("PythagoreanFailed", <<a, b, given>>))
            ELSE Valid

\* preimage.length of the preimages of the model; "long" stands for a
\* string of 101 characters
Length(v) ==
    CASE v.t = "str" /\ v.s = "" -> 0
      [] v.t = "str" /\ v.s = "long" -> 101
      [] OTHER -> 1

\* validateHashCircuit(witness, publicInput)
SimValidateHashCircuit(witness, publicInput) ==
    IF Nullish(witness)
    THEN Invalid(Msg("HashError", <<Str("TypeError")>>))
    ELSE LET preimage == OrElse(Prop(witness, "preimage"), Str(""))
         IN IF Length(preimage) = 0
            THEN Invalid(Msg("EmptyPreimage", << >>))
            ELSE IF Length(preimage) > 100
            THEN Invalid(Msg("PreimageTooLong", << >>))
            ELSE Valid

\* simulateConstraintSatisfaction(constraints, witness, publicInput), from
\* entry i on: the loop returns at the first entry that matches a pattern
RECURSIVE simulateConstraintSatisfaction(_, _)
simulateConstraintSatisfaction(constraints, i) ==
    IF i > Len(constraints) THEN Valid
    ELSE LET constraint == constraints[i]
         IN IF \/ StrictEq(constraint.left, Str("invalid"))
               \/ StrictEq(constraint.right, Str("invalid"))
               \/ StrictEq(constraint.output, Str("invalid"))
            THEN Invalid(Msg("InvalidExpressions", <<Num(i)>>))
            ELSE IF /\ StrictEq(constraint.left, Str("1"))
                    /\ StrictEq(constraint.right, Str("1"))
                    /\ StrictEq(constraint.output, Str("0"))
            THEN Invalid(Msg("Contradiction", <<Num(i)>>))
            ELSE IF /\ StrictEq(constraint.left, Str("0"))
                    /\ ~StrictEq(constraint.output, Str("0"))
            THEN Invalid(Msg("ZeroTimes", <<Num(i), constraint.output>>))
            ELSE simulateConstraintSatisfaction(constraints, i + 1)

\* if (!constraint.left && !constraint.right && !constraint.output)
SimIncomplete(constraint) ==
    Falsy(constraint.left) /\ Falsy(constraint.right) /\ Falsy(constraint.output)

\* the format loop of validateCustomCircuit, from entry i on: the first
\* entry it rejects, as << reason >>, or << >>
RECURSIVE SimFormatLoop(_, _)
SimFormatLoop(constraints, i) ==
    IF i > Len(constraints) THEN << >>
    ELSE LET constraint == constraints[i]
         IN IF SimIncomplete(constraint)
            THEN << Msg("Incomplete", <<Num(i)>>) >>
            ELSE IF /\ StrictEq(constraint.left, constraint.right)
                    /\ StrictEq(constraint.left, constraint.output)
                    /\ StrictEq(constraint.left, Str(""))
            THEN << Msg("EmptyOrInvalid", <<Num(i)>>) >>
            ELSE SimFormatLoop(constraints, i + 1)

\* circuitData: null, or an object whose constraints and variables may be
\* missing
NullData ==
    [isNull |-> TRUE, hasConstraints |-> FALSE, constraints |-> << >>,
     hasVariables |-> FALSE, variables |-> << >>]

\* circuitData.variables.filter(v => v.type === type).length
CountType(variables, type) ==
    Cardinality({j \in 1..Len(variables) : variables[j].type = type})

\* validateCustomCircuit(witness, publicInput, circuitData)
SimValidateCustomCircuit(witness, publicInput, circuitData) ==
    IF \/ circuitData.isNull
       \/ ~circuitData.hasConstraints
       \/ Len(circuitData.constraints) = 0
    THEN Invalid(Msg("NoConstraints", << >>))
    ELSE LET format == SimFormatLoop(circuitData.constraints, 1)
         IN IF format # << >> THEN Invalid(format[1])
            ELSE IF ~circuitData.hasVariables
            THEN Invalid(Msg("CustomError", <<Str("TypeError")>>))
            ELSE IF /\ CountType(circuitData.variables, "public") = 0
                    /\ CountType(circuitData.variables, "private") = 0
            THEN Invalid(Msg("NoVariables", << >>))
            ELSE simulateConstraintSatisfaction(circuitData.constraints, 1)

\* validateCircuitConstraints(circuitType, witness, publicInput, circuitData)
SimValidateCircuitConstraints(circuitType, witness, publicInput, circuitData) ==
    CASE circuitType \in {"simple", "multiplication"} ->
             SimValidateMultiplicationCircuit(witness, publicInput)
      [] circuitType = "quadratic" ->
             SimValidateQuadraticCircuit(witness, publicInput)
      [] circuitType = "hash" ->
             SimValidateHashCircuit(witness, publicInput)
      [] circuitType = "custom" ->
             SimValidateCustomCircuit(witness, publicInput, circuitData)
      [] OTHER -> Valid

---------------------------------------------------------------------------
(* Inputs *)

Nums == {Num(k) : k \in 0..MaxNum}

\* the strings callers write as operands
Tokens == {"0", "1", "2", "x", "invalid", ""}

\* a constraint's operand: missing, a numeric literal or a string
Operands == {Undef} \cup Nums \cup {Str(x) : x \in Tokens}

AllConstraints == [left : Operands, right : Operands, output : Operands]

Constraint(l, r, o) == [left |-> l, right |-> r, output |-> o]

\* one constraint of each kind, from which the longer lists are built
ConstraintPool ==
    { Constraint(Str("1"), Str("1"), Str("1")),
      Constraint(Str("1"), Str("1"), Str("0")),
      Constraint(Num(1), Num(1), Num(0)),
      Constraint(Str("0"), Str("1"), Str("1")),
      Constraint(Num(0), Num(1), Num(0)),
      Constraint(Str("1"), Str("0"), Str("1")),
      Constraint(Str("1"), Undef, Str("1")),
      Constraint(Str("invalid"), Str("1"), Str("1")) }

PoolLists == UNION {[1..n -> ConstraintPool] : n \in 0..MaxLen}

ConstraintLists == {<<c>> : c \in AllConstraints} \cup PoolLists

\* the variable-value mappings handed to part_000's validators
Bindings == UNION {[S -> Nums] : S \in SUBSET {"x"}}

QuadraticBindings == [{"a", "b", "c"} -> Nums]

\* circuitData.variables: entries {name, type, value}
VariableLists ==
    {<< >>} \cup
    {<<[name |-> "x", type |-> ty, value |-> v]>> :
        ty \in {"public", "private", "other"}, v \in Nums}

CircuitData(hasC, cs, hasV, vs) ==
    [isNull |-> FALSE, hasConstraints |-> hasC, constraints |-> cs,
     hasVariables |-> hasV, variables |-> vs]

\* circuitData as callers of the custom validators pass it
CustomData ==
    {NullData, CircuitData(FALSE, << >>, TRUE, << >>)}
    \cup {CircuitData(TRUE, cs, FALSE, << >>) : cs \in PoolLists}
    \cup {CircuitData(TRUE, cs, TRUE, vs) :
            cs \in ConstraintLists, vs \in VariableLists}

---------------------------------------------------------------------------
(* State *)

\* the last call: its operation, arguments and outcome; `again` tells that
\* a verification repeats the call before it, whose outcome is `before`
NoCall ==
    [op |-> "none", in |-> << >>, out |-> << >>, done |-> TRUE,
     again |-> FALSE, before |-> << >>]

\* a call of op with the arguments in, about to run
Calling(op, in) ==
    [op |-> op, in |-> in, out |-> << >>, done |-> FALSE,
     again |-> FALSE, before |-> << >>]

\* a call of op with the arguments in that returned out
Returned(op, in, out) ==
    [op |-> op, in |-> in, out |-> out, done |-> TRUE,
     again |-> FALSE, before |-> << >>]

\* a call that threw: the promise it returned is rejected with the error
Thrown(error) == [thrown |-> error]

\* a verification that returned out: it repeats the call before it when
\* that call ran the same operation on the same arguments
Verified(op, in, out) ==
    LET again == call.op = op /\ call.done /\ call.in = in
    IN [op |-> op, in |-> in, out |-> out, done |-> TRUE,
        again |-> again, before |-> IF again THEN call.out ELSE << >>]

\* the fields `new MarlinSimulator()` sets; a RealMarlinSystem ("base") has
\* none, and the model leaves the variables at rest
Constructed(i) ==
    /\ impl = i
    /\ universalSRS = Null
    /\ indexKeys = Null
    /\ proof = Null
    /\ currentConstraints = IF i = "sim" THEN 100 ELSE 0
    /\ currentVariables = IF i = "sim" THEN 50 ELSE 0
    /\ executionLog = << >>

pipeline == <<impl, universalSRS, indexKeys, proof, currentConstraints,
              currentVariables, executionLog>>

---------------------------------------------------------------------------
(* The environment.  Random hex strings and clock readings are opaque: no  *)
(* operation of the repository reads one back, and the model keeps each as *)
(* a token.  A random duration is drawn from its least and greatest value. *)

\* generateRandomHex(length)
generateRandomHex(length) == [hex |-> length]

\* generateRandomField()
generateRandomField == [field |-> generateRandomHex(8)]

\* new Date().toISOString()
Timestamp == "now"

\* Math.floor(lo + Math.random() * span)
RandomInt(lo, span) == {lo, lo + span - 1}

---------------------------------------------------------------------------
(* Pipeline inputs *)

\* (constraints, variables, nonZero)
SetupArgs == {<<10, 10, 10>>, <<5, 20, 7>>}

MulWitnesses == {Obj([a |-> x, b |-> y]) : x, y \in Nums}

\* witness objects of the multiplication, quadratic and hash circuits, and
\* a missing witness
Witnesses ==
    MulWitnesses
    \cup {Undef,
          Obj([sideA |-> Num(1), sideB |-> Num(0)]),
          Obj([preimage |-> Str("x")]),
          Obj([preimage |-> Str("long")])}

PublicInputs == {Obj([c |-> v]) : v \in Nums} \cup {Obj(<< >>), Undef}

\* a small custom circuit: x * 1 = x, with x private
SmallCircuit ==
    CircuitData(TRUE, << Constraint(Str("x"), Str("1"), Str("x")) >>,
                TRUE, << [name |-> "x", type |-> "private", value |-> Num(1)] >>)

\* a custom circuit with two failing constraints: 1 * 1 = 0 and 0 * 1 = 1
TwoFailingCircuit ==
    CircuitData(TRUE, << Constraint(Str("1"), Str("1"), Str("0")),
                         Constraint(Str("0"), Str("1"), Str("1")) >>,
                TRUE, << [name |-> "x", type |-> "private", value |-> Num(1)] >>)

\* (publicInput, circuitType, circuitData) as handed to verify
VerifyArgs ==
    {<<p, ty, NullData>> : p \in PublicInputs,
                           ty \in {"multiplication", "quadratic"}}
    \cup {<<Obj(<< >>), ty, NullData>> :
             ty \in {"simple", "hash", "custom", "other"}}
    \cup {<<Obj(<< >>), "custom", SmallCircuit>>}

---------------------------------------------------------------------------
(* marlin-simulator.js: MarlinSimulator -- the pipeline *)

Max(a, b) == IF a >= b THEN a ELSE b
Min(a, b) == IF a <= b THEN a ELSE b

\* the greatest r in lo..hi with r * r <= m, given lo * lo <= m
RECURSIVE ISqrtIn(_, _, _)
ISqrtIn(m, lo, hi) ==
    IF lo >= hi THEN lo
    ELSE LET mid == (lo + hi + 1) \div 2
         IN IF mid * mid <= m THEN ISqrtIn(m, mid, hi)
            ELSE ISqrtIn(m, lo, mid - 1)

\* estimateProofSize() rounding the square root down before scaling it
estimateProofSize_FloorFirst(numConstraints) ==
    1024 + 32 * ISqrtIn(numConstraints, 0, numConstraints)

\* estimateProofSize(): Math.floor(1024 + Math.sqrt(n) * 32), where
\* floor(32 * sqrt(n)) = floor(sqrt(1024 * n)) lies in 0..32 * n; the search
\* stops at 46340, the greatest number whose square is below 2^31
estimateProofSize(numConstraints) ==
    1024 + ISqrtIn(1024 * numConstraints, 0, Min(32 * numConstraints, 46340))

\* getCommitmentRounds() that enlarges the rounds from 10000 constraints on
getCommitmentRounds_FromThreshold(numConstraints) ==
    LET h == generateRandomHex(32)
        baseCommitments == << <<h, h, h>>, <<h, h>>, <<h>> >>
    IN IF numConstraints >= 10000
       THEN << Append(baseCommitments[1], h), Append(baseCommitments[2], h),
               baseCommitments[3] >>
       ELSE baseCommitments

\* getCommitmentRounds()
getCommitmentRounds(numConstraints) ==
    LET h == generateRandomHex(32)
        baseCommitments == << <<h, h, h>>, <<h, h>>, <<h>> >>
    IN IF numConstraints > 10000
       THEN << Append(baseCommitments[1], h), Append(baseCommitments[2], h),
               baseCommitments[3] >>
       ELSE baseCommitments

\* getEvaluationCount() without the upper clamp
getEvaluationCount_Unclamped(numConstraints) ==
    Max(4, numConstraints \div 100)

\* getEvaluationCount()
getEvaluationCount(numConstraints) ==
    Min(16, Max(4, numConstraints \div 100))

\* simulateUniversalSetup that also drops the keys and the proof made under
\* the SRS it replaces
SimSetup_Invalidating ==
    /\ impl = "sim"
    /\ \E args \in SetupArgs :
         /\ universalSRS' =
               [maxDegree |-> Max(args[1], Max(args[2], args[3])) * 2,
                parameters |-> generateRandomHex(64),
                timestamp |-> Timestamp]
         /\ call' = Returned("setup", args, universalSRS')
    /\ indexKeys' = Null
    /\ proof' = Null
    /\ UNCHANGED <<impl, currentConstraints, currentVariables, executionLog>>

\* simulateUniversalSetup(constraints, variables, nonZero)
SimSetup ==
    /\ impl = "sim"
    /\ \E args \in SetupArgs :
         /\ universalSRS' =
               [maxDegree |-> Max(args[1], Max(args[2], args[3])) * 2,
                parameters |-> generateRandomHex(64),
                timestamp |-> Timestamp]
         /\ call' = Returned("setup", args, universalSRS')
    /\ UNCHANGED <<impl, indexKeys, proof, currentConstraints,
                   currentVariables, executionLog>>

\* the keys simulateIndexGeneration builds; Math.floor(n * 0.7) is written
\* on integers
IndexKeys ==
    [proverKey |-> [indexCommitments |-> generateRandomHex(32),
                    committerKey |-> generateRandomHex(32)],
     verifierKey |->
        [indexInfo |-> [numConstraints |-> currentConstraints,
                        numVariables |-> currentVariables,
                        numNonZero |-> (currentConstraints * 7) \div 10],
         indexComms |-> generateRandomHex(32),
         verifierKey |-> generateRandomHex(32)]]

\* simulateIndexGeneration that rejects while there is no SRS
SimIndex_RequiresSetup ==
    /\ impl = "sim"
    /\ IF universalSRS = Null
       THEN /\ call' = Returned("index", "Demo", Thrown("StateError"))
            /\ indexKeys' = indexKeys
       ELSE /\ indexKeys' = IndexKeys
            /\ call' = Returned("index", "Demo", indexKeys')
    /\ UNCHANGED <<impl, universalSRS, proof, currentConstraints,
                   currentVariables, executionLog>>

\* simulateIndexGeneration(circuitDescription)
SimIndex ==
    /\ impl = "sim"
    /\ indexKeys' = IndexKeys
    /\ call' = Returned("index", "Demo", indexKeys')
    /\ UNCHANGED <<impl, universalSRS, proof, currentConstraints,
                   currentVariables, executionLog>>

\* the object simulateProofGeneration stores in this.proof when
\* this.currentConstraints is numConstraints
ProofOf(numConstraints, witness, publicInput) ==
    [commitments |-> getCommitmentRounds(numConstraints),
     evaluations |-> [j \in 1..getEvaluationCount(numConstraints)
                        |-> generateRandomField],
     proverMessages |-> [j \in 1..3 |->
                           [type |-> "FieldElements",
                            data |-> <<generateRandomField>>]],
     pcProof |-> generateRandomHex(64),
     size |-> estimateProofSize(numConstraints),
     witness |-> witness,
     publicInput |-> publicInput]

\* simulateProofGeneration(witness, publicInput)
SimProve ==
    /\ impl = "sim"
    /\ \E witness \in Witnesses, publicInput \in {Obj(<< >>)} :
         /\ proof' = ProofOf(currentConstraints, witness, publicInput)
         /\ call' = Returned("prove", <<witness, publicInput>>, proof')
    /\ UNCHANGED <<impl, universalSRS, indexKeys, currentConstraints,
                   currentVariables, executionLog>>

\* the four checks simulateVerification always records first
BasicChecks ==
    << Msg("PolynomialCommitment", << >>), Msg("LinearCombination", << >>),
       Msg("QuerySet", << >>), Msg("FiatShamir", << >>) >>

\* checksPerformed kept from the verification before instead of starting
\* empty
NoChecks_Kept ==
    IF call.op = "verify" /\ Len(call.out.checksPerformed) <= Len(BasicChecks) + 1
    THEN call.out.checksPerformed
    ELSE << >>

\* const checksPerformed = []
NoChecks == << >>

\* the try block of simulateVerification: [isValid, failureReason,
\* checksPerformed]; reading proof.witness of a null proof throws, and the
\* catch block records the error
SimVerifyChecks(proofArg, publicInput, circuitType, circuitData) ==
    IF proofArg = Null
    THEN [isValid |-> FALSE,
          failureReason |-> Msg("TypeError", << >>),
          checksPerformed |->
              Append(NoChecks \o BasicChecks,
                     Msg("VerificationError", <<Msg("TypeError", << >>)>>))]
    ELSE LET constraintCheck ==
                 SimValidateCircuitConstraints(circuitType, proofArg.witness,
                                               publicInput, circuitData)
         IN IF ~constraintCheck.valid
            THEN [isValid |-> FALSE,
                  failureReason |-> constraintCheck.reason,
                  checksPerformed |->
                      Append(NoChecks \o BasicChecks,
                             Msg("ConstraintFailed", <<constraintCheck.reason>>))]
            ELSE [isValid |-> TRUE,
                  failureReason |-> EmptyStr,
                  checksPerformed |->
                      Append(NoChecks \o BasicChecks,
                             Msg("ConstraintsSatisfied", << >>))]

\* the object simulateVerification resolves with
VerificationResult(checks, verificationTime) ==
    [isValid |-> checks.isValid,
     failureReason |-> checks.failureReason,
     verificationTime |-> verificationTime,
     checksPerformed |-> checks.checksPerformed]

\* simulateVerification(proof, publicInput, circuitType, circuitData), the
\* caller handing over the stored proof
SimVerify ==
    /\ impl = "sim"
    /\ \E args \in VerifyArgs, verificationTime \in RandomInt(10, 50) :
         call' = Verified("verify",
                     [proof |-> proof, publicInput |-> args[1],
                      circuitType |-> args[2], circuitData |-> args[3]],
                     VerificationResult(
                         SimVerifyChecks(proof, args[1], args[2], args[3]),
                         verificationTime))
    /\ UNCHANGED pipeline

\* reset()
SimReset ==
    /\ impl = "sim"
    /\ universalSRS' = Null
    /\ indexKeys' = Null
    /\ proof' = Null
    /\ call' = Returned("reset", << >>, Undef)
    /\ UNCHANGED <<impl, currentConstraints, currentVariables, executionLog>>

---------------------------------------------------------------------------
(* part_000: RealMarlinSystem *)

\* parseInt(v), for v a number or a string
ParseInt(v) ==
    CASE v.t = "num" -> v
      [] v.t = "str" -> ParseFloat(v.s)
      [] OTHER -> NaN

\* Object.values(obj)[0], for obj an object: the model's objects hold at
\* most one value when they get here
ObjectValuesFirst(obj) ==
    IF DOMAIN obj.p = {} THEN Undef
    ELSE obj.p[CHOOSE name \in DOMAIN obj.p : TRUE]

\* simulateUniversalSetup(numConstraints, numVariables, numNonZero)
BaseUniversalSetup(numConstraints, numVariables, numNonZero, setup_time) ==
    [success |-> TRUE,
     message |-> Msg("SetupCompleted", << >>),
     max_degree |-> numConstraints + numVariables,
     setup_time |-> setup_time]

\* simulateIndexGeneration(circuitName, a, b, c)
BaseIndexGeneration(circuitName, index_time) ==
    [success |-> TRUE,
     message |-> Msg("Indexed", <<Str(circuitName)>>),
     num_constraints |-> 1,
     num_variables |-> 3,
     index_time |-> index_time]

\* simulateProofGeneration(witnessA, witnessB, publicC)
BaseProofGeneration(witnessA, witnessB, publicC, proof_time) ==
    [success |-> TRUE,
     message |-> Msg("ProofGenerated", <<witnessA, witnessB, publicC>>),
     proof_size |-> 1000,
     proof_time |-> proof_time]

\* simulateVerification(publicC): the witness is the constant pair (3, 5)
BaseVerification(publicC, verify_time) ==
    LET witnessA == Num(3)
        witnessB == Num(5)
        expectedResult == Mul(witnessA, witnessB)
        actualResult == ParseInt(publicC)
        isValid == StrictEq(expectedResult, actualResult)
    IN [success |-> TRUE,
        message |-> IF isValid THEN Msg("VerificationSuccessful", << >>)
                    ELSE Msg("VerificationFailed", << >>),
        is_valid |-> isValid,
        verify_time |-> verify_time]

\* the object simulateFullDemo(a, b, c) returns on a RealMarlinSystem; times
\* holds the four stages' random durations and the elapsed total
BaseFullDemoResult(a, b, c, times) ==
    LET setupResult == BaseUniversalSetup(10, 10, 10, times[1])
        indexResult == BaseIndexGeneration("Multiplication Circuit", times[2])
        proveResult == BaseProofGeneration(a, b, c, times[3])
        verifyResult == BaseVerification(c, times[4])
        isConstraintSatisfied ==
            StrictEq(Mul(ParseInt(a), ParseInt(b)), ParseInt(c))
    IN [demo_complete |-> TRUE,
        constraint |-> Msg("Constraint", <<a, b, c>>),
        is_constraint_satisfied |-> isConstraintSatisfied,
        proof_verification |-> verifyResult.is_valid,
        rust_execution |-> TRUE,
        timing |-> [setup_ms |-> setupResult.setup_time,
                    index_ms |-> indexResult.index_time,
                    prove_ms |-> proveResult.proof_time,
                    verify_ms |-> verifyResult.verify_time,
                    total_ms |-> times[5]]]

---------------------------------------------------------------------------
(* part_000: MarlinSimulator extends RealMarlinSystem -- the pipeline *)

\* log(message); a message is kept by the template that wrote it
log(message) ==
    Append(executionLog, [timestamp |-> Timestamp, message |-> message])

\* the model follows the log up to MaxLog entries
LogRoom(n) == Len(executionLog) + n <= MaxLog

\* simulateUniversalSetup(constraints, variables, nonZero)
RealSetup ==
    /\ impl = "real" /\ LogRoom(1)
    /\ \E args \in SetupArgs, setup_time \in RandomInt(10, 30) :
         /\ currentConstraints' = args[1]
         /\ currentVariables' = args[2]
         /\ call' = Returned("setup", args,
                        BaseUniversalSetup(args[1], args[2], args[3], setup_time))
    /\ executionLog' = log("Setup")
    /\ UNCHANGED <<impl, universalSRS, indexKeys, proof>>

\* simulateIndexGeneration(circuitDescription)
RealIndex ==
    /\ impl = "real" /\ LogRoom(1)
    /\ \E index_time \in RandomInt(3, 10) :
         call' = Returned("index", "Demo", BaseIndexGeneration("Demo", index_time))
    /\ executionLog' = log("Index")
    /\ UNCHANGED <<impl, universalSRS, indexKeys, proof, currentConstraints,
                   currentVariables>>

\* simulateProofGeneration(witnesses, publicInputs): witnesses.a and
\* Object.values(publicInputs) throw on undefined
RealProve ==
    /\ impl = "real" /\ LogRoom(1)
    /\ \E witnesses \in Witnesses, publicInputs \in {Obj(<< >>), Undef},
          proof_time \in RandomInt(15, 20) :
         IF Nullish(witnesses) \/ Nullish(publicInputs)
         THEN /\ call' = Returned("prove", <<witnesses, publicInputs>>,
                             Thrown("TypeError"))
              /\ UNCHANGED executionLog
         ELSE LET a == OrElse(Prop(witnesses, "a"), Num(3))
                  b == OrElse(Prop(witnesses, "b"), Num(5))
                  c == OrElse(ObjectValuesFirst(publicInputs), Num(15))
              IN /\ call' = Returned("prove", <<witnesses, publicInputs>>,
                                BaseProofGeneration(a, b, c, proof_time))
                 /\ executionLog' = log("Prove")
    /\ UNCHANGED <<impl, universalSRS, indexKeys, proof, currentConstraints,
                   currentVariables>>

\* simulateVerification(proof, publicInputs)
RealVerify ==
    /\ impl = "real" /\ LogRoom(1)
    /\ \E publicInputs \in PublicInputs, verify_time \in RandomInt(3, 8) :
         IF Nullish(publicInputs)
         THEN /\ call' = Returned("verify", publicInputs, Thrown("TypeError"))
              /\ UNCHANGED executionLog
         ELSE LET c == OrElse(ObjectValuesFirst(publicInputs), Num(15))
              IN /\ call' = Returned("verify", publicInputs,
                                BaseVerification(c, verify_time))
                 /\ executionLog' = log("Verify")
    /\ UNCHANGED <<impl, universalSRS, indexKeys, proof, currentConstraints,
                   currentVariables>>

\* (a, b, c) as handed to simulateFullDemo
DemoNums == Nums \cup {Num(3), Num(5)}

\* simulateFullDemo(a, b, c) on a MarlinSimulator: the inherited method
\* calls the overriding stages with its own arguments, so the proof stage
\* reads a.a and Object.values(b), and the verification stage gets c as its
\* proof and no publicInputs: Object.values(undefined) throws after the
\* first three stages have run
RealFullDemo ==
    /\ impl = "real" /\ LogRoom(3)
    /\ \E a \in {Num(0), Num(3)}, b \in {Num(5)}, c \in {Num(0), Num(15)} :
         call' = Returned("fullDemo", <<a, b, c>>, Thrown("TypeError"))
    /\ currentConstraints' = 10
    /\ currentVariables' = 10
    /\ executionLog' = executionLog \o
          << [timestamp |-> Timestamp, message |-> "Setup"],
             [timestamp |-> Timestamp, message |-> "Index"],
             [timestamp |-> Timestamp, message |-> "Prove"] >>
    /\ UNCHANGED <<impl, universalSRS, indexKeys, proof>>

\* Math.sqrt(n)
Sqrt(n) == [t |-> "sqrt", n |-> n, s |-> ""]

\* the variables object simulateCircuitVerification builds from
\* circuitData.variables
VariablesOf(vs) ==
    [name \in {vs[j].name : j \in 1..Len(vs)} |->
        LET last == CHOOSE j \in 1..Len(vs) :
                       /\ vs[j].name = name
                       /\ \A k \in (j + 1)..Len(vs) : vs[k].name # name
        IN OrElse(vs[last].value, Num(0))]

\* errors.join('; ') that keeps the first error only
Join_First(errors) == errors[1]

\* errors.join('; '): the one element of a one-element array, as it stands
Join(errors) ==
    IF Len(errors) = 0 THEN EmptyStr
    ELSE IF Len(errors) = 1 THEN errors[1]
    ELSE Msg("Join", errors)

\* the try block of simulateCircuitVerification: whether it threw, and the
\* fields it computed
CircuitVerificationChecks(witnessData, publicData, circuitType, circuitData) ==
    LET threw == [threw |-> TRUE, isValid |-> FALSE,
                  failureReason |-> Msg("VerificationError", <<Str("TypeError")>>),
                  checksPerformed |->
                      << Msg("Failed",
                             <<Msg("VerificationError", <<Str("TypeError")>>)>>) >>]
        done(isValid, failureReason, checksPerformed) ==
            [threw |-> FALSE, isValid |-> isValid,
             failureReason |-> failureReason,
             checksPerformed |-> checksPerformed]
    IN CASE circuitType = "multiplication" ->
              IF Nullish(witnessData) \/ Nullish(publicData) THEN threw
              ELSE LET a == OrElse(Prop(witnessData, "a"), Num(3))
                       b == OrElse(Prop(witnessData, "b"), Num(5))
                       c == OrElse(ObjectValuesFirst(publicData), Num(15))
                       expectedResult == Mul(a, b)
                       failed == Msg("MultiplicationFailed",
                                     <<a, b, expectedResult, c>>)
                   IN IF StrictEq(expectedResult, c)
                      THEN done(TRUE, EmptyStr,
                                << Msg("CheckMultiplication", <<a, b, c>>),
                                   Msg("MultiplicationPassed", <<a, b, c>>) >>)
                      ELSE done(FALSE, failed,
                                << Msg("CheckMultiplication", <<a, b, c>>),
                                   Msg("Failed", <<failed>>) >>)
         [] circuitType = "quadratic" ->
              IF Nullish(witnessData) \/ Nullish(publicData) THEN threw
              ELSE LET a == OrElse(Prop(witnessData, "sideA"), Num(3))
                       b == OrElse(Prop(witnessData, "sideB"), Num(4))
                       given == ObjectValuesFirst(publicData)
                       x == ToNumber(a)
                       y == ToNumber(b)
                       defined == x.t # "nan" /\ y.t # "nan"
                       c == IF ~Falsy(given) THEN given
                            ELSE IF defined THEN Sqrt(x.n * x.n + y.n * y.n)
                            ELSE NaN
                       close == /\ defined
                                /\ \/ Falsy(given)
                                   \/ /\ ToNumber(given).t # "nan"
                                      /\ ~SqrtDiffers(x.n * x.n + y.n * y.n,
                                                      ToNumber(given).n)
                       failed == Msg("PythagorasFailed", << >>)
                   IN IF close
                      THEN done(TRUE, EmptyStr,
                                << Msg("CheckPythagoras", <<a, b, c>>),
                                   Msg("PythagorasPassed", << >>) >>)
                      ELSE done(FALSE, failed,
                                << Msg("CheckPythagoras", <<a, b, c>>),
                                   Msg("Failed", <<failed>>) >>)
         [] circuitType = "custom" /\ ~circuitData.isNull ->
              IF ~circuitData.hasVariables \/ ~circuitData.hasConstraints
              THEN threw
              ELSE LET validationResult ==
                           RealValidateCircuitConstraints(
                               VariablesOf(circuitData.variables),
                               circuitData.constraints, "custom")
                   IN IF ~validationResult.isValid
                      THEN done(FALSE, Join(validationResult.errors),
                                [j \in 1..Len(validationResult.errors) |->
                                    Msg("Failed", <<validationResult.errors[j]>>)])
                      ELSE done(TRUE, EmptyStr, << Msg("CustomPassed", << >>) >>)
         [] OTHER ->
              done(TRUE, EmptyStr, << Msg("TypePassed", <<Str(circuitType)>>) >>)

\* Date.now() - startTime around code that does not wait
Elapsed == {0, 1}

\* (witnessData, publicData, circuitType, circuitData) as the pipeline's
\* callers hand them to simulateCircuitVerification
CircuitVerificationArgs ==
    { <<Obj([a |-> Num(0), b |-> Num(1)]), Obj([c |-> Num(0)]),
        "multiplication", NullData>>,
      <<Obj([a |-> Num(1), b |-> Num(MaxNum)]), Obj([c |-> Num(MaxNum)]),
        "multiplication", NullData>>,
      <<Undef, Undef, "quadratic", NullData>>,
      <<Obj(<< >>), Obj(<< >>), "custom", SmallCircuit>>,
      <<Obj(<< >>), Obj(<< >>), "custom", TwoFailingCircuit>>,
      <<Obj([preimage |-> Str("")]), Obj(<< >>), "hash", NullData>>,
      <<Obj(<< >>), Obj(<< >>), "other", NullData>> }

\* what simulateCircuitVerification(args) does to the instance
CircuitVerification(args, verificationTime) ==
    LET checks == CircuitVerificationChecks(args[1], args[2], args[3], args[4])
    IN /\ call' = Verified("circuitVerification", args,
                      VerificationResult(checks, verificationTime))
       /\ executionLog' = IF checks.threw THEN executionLog
                          ELSE log("CircuitVerified")
       /\ UNCHANGED <<impl, universalSRS, indexKeys, proof,
                      currentConstraints, currentVariables>>

\* simulateCircuitVerification(witnessData, publicData, circuitType,
\* circuitData)
RealCircuitVerification ==
    /\ impl = "real" /\ LogRoom(1)
    /\ \E args \in CircuitVerificationArgs, verificationTime \in Elapsed :
         CircuitVerification(args, verificationTime)

\* reset(), inherited from RealMarlinSystem: it writes to the console only
RealReset ==
    /\ impl = "real"
    /\ call' = Returned("reset", << >>, Undef)
    /\ UNCHANGED pipeline

---------------------------------------------------------------------------
(* part_001: RustMarlinClient and MarlinSimulator extends RustMarlinClient. *)
(* The bridge server and the Rust program behind it are the environment:    *)
(* a request is rejected (no connection, HTTP error status, unreadable      *)
(* body) or answered with {success, output, jsonResult}, as server.js       *)
(* builds it.  The JSON line the Rust program prints is opaque.             *)

\* makeRequest rejects
Rejected == [ok |-> FALSE]

\* the text the Rust program printed: whether a line holds "(N ms)", and
\* whether one holds 'PC::Check failed'
Output(ms, checkFailed) == [ms |-> ms, checkFailed |-> checkFailed]

\* makeRequest resolves with the server's answer
Answered(jsonResult, output) ==
    [ok |-> TRUE, success |-> TRUE, jsonResult |-> jsonResult, output |-> output]

\* the JSON object the Rust program printed for the endpoint
RustJson(endpoint) == [rust |-> endpoint]

\* what makeRequest(endpoint, data) may come back with
Replies(endpoint) ==
    {Rejected, Answered(RustJson(endpoint), Output(Undef, FALSE))}
    \cup {Answered(Null, Output(ms, checkFailed)) :
            ms \in {Undef, Num(7)}, checkFailed \in BOOLEAN}

\* extractTimeFromOutput(output, phase): the number of the first "(N ms)",
\* or Math.floor(Math.random() * 50) + 10
extractTimeFromOutput(output) ==
    IF output.ms # Undef THEN {output.ms.n} ELSE RandomInt(10, 50)

\* the times a client method may extract from the answer; it extracts none
\* when the request is rejected or the answer holds a JSON result
ExtractedTimes(result) ==
    IF result.ok /\ result.jsonResult = Null
    THEN extractTimeFromOutput(result.output)
    ELSE {0}

\* universalSetup(numConstraints, numVariables, numNonZero), given the answer
universalSetup(numConstraints, numVariables, numNonZero, result, time) ==
    IF result.jsonResult # Null THEN result.jsonResult
    ELSE [success |-> result.success,
          message |-> Msg("SetupCompleted", << >>),
          setup_time |-> time,
          max_degree |-> numConstraints + numVariables]

\* indexCircuit(circuitName, a, b, c), given the answer
indexCircuit(circuitName, result, time) ==
    IF result.jsonResult # Null THEN result.jsonResult
    ELSE [success |-> result.success,
          message |-> Msg("Indexed", <<Str(circuitName)>>),
          index_time |-> time,
          num_constraints |-> 1,
          num_variables |-> 3]

\* generateProof(witnessA, witnessB, publicC), given the answer
generateProof(witnessA, witnessB, publicC, result, time) ==
    IF result.jsonResult # Null THEN result.jsonResult
    ELSE [success |-> result.success,
          message |-> Msg("ProofGenerated", <<witnessA, witnessB, publicC>>),
          proof_time |-> time,
          proof_size |-> 1000]

\* verifyProof(publicC), given the answer
verifyProof(publicC, result, time) ==
    IF result.jsonResult # Null THEN result.jsonResult
    ELSE LET isValid == ~result.output.checkFailed
         IN [success |-> result.success,
             message |-> IF isValid THEN Msg("VerificationSuccessful", << >>)
                         ELSE Msg("VerificationFailed", << >>),
             is_valid |-> isValid,
             verify_time |-> time]

\* a stage of part_001's MarlinSimulator after its arguments are read: it
\* logs, awaits the client's method, and logs again
RustStage(op, in, started, finished, result, out) ==
    /\ call' = Returned(op, in, IF result.ok THEN out ELSE Thrown("Error"))
    /\ executionLog' =
          IF result.ok
          THEN executionLog \o << [timestamp |-> Timestamp, message |-> started],
                                  [timestamp |-> Timestamp, message |-> finished] >>
          ELSE log(started)
    /\ UNCHANGED <<impl, universalSRS, indexKeys, proof, currentConstraints,
                   currentVariables>>

\* simulateUniversalSetup(constraints, variables, nonZero)
RustSetup ==
    /\ impl = "rust" /\ LogRoom(2)
    /\ \E args \in SetupArgs, result \in Replies("universal-setup") :
         \E time \in ExtractedTimes(result) :
            RustStage("setup", args, "SetupStart", "SetupDone", result,
                      universalSetup(args[1], args[2], args[3], result, time))

\* simulateIndexGeneration(circuitDescription)
RustIndex ==
    /\ impl = "rust" /\ LogRoom(2)
    /\ \E result \in Replies("index") :
         \E time \in ExtractedTimes(result) :
            RustStage("index", "Demo", "IndexStart", "IndexDone", result,
                      indexCircuit("Demo", result, time))

\* simulateProofGeneration(witnesses, publicInputs): witnesses.a and
\* Object.values(publicInputs) throw on undefined, before anything is logged
RustProve ==
    /\ impl = "rust" /\ LogRoom(2)
    /\ \E witnesses \in MulWitnesses \cup {Undef},
          publicInputs \in {Obj(<< >>), Undef},
          result \in Replies("prove") :
         IF Nullish(witnesses) \/ Nullish(publicInputs)
         THEN /\ call' = Returned("prove", <<witnesses, publicInputs>>,
                             Thrown("TypeError"))
              /\ UNCHANGED pipeline
         ELSE LET a == OrElse(Prop(witnesses, "a"), Num(3))
                  b == OrElse(Prop(witnesses, "b"), Num(5))
                  c == OrElse(ObjectValuesFirst(publicInputs), Num(15))
              IN \E time \in ExtractedTimes(result) :
                    RustStage("prove", <<witnesses, publicInputs>>,
                              "ProveStart", "ProveDone", result,
                              generateProof(a, b, c, result, time))

\* simulateVerification(proof, publicInputs)
RustVerify ==
    /\ impl = "rust" /\ LogRoom(2)
    /\ \E publicInputs \in PublicInputs, result \in Replies("verify") :
         IF Nullish(publicInputs)
         THEN /\ call' = Returned("verify", publicInputs, Thrown("TypeError"))
              /\ UNCHANGED pipeline
         ELSE LET c == OrElse(ObjectValuesFirst(publicInputs), Num(15))
              IN \E time \in ExtractedTimes(result) :
                    RustStage("verify", publicInputs, "VerifyStart",
                              "VerifyDone", result, verifyProof(c, result, time))

\* reset()
RustReset ==
    /\ impl = "rust"
    /\ executionLog' = << >>
    /\ call' = Returned("reset", << >>, Undef)
    /\ UNCHANGED <<impl, universalSRS, indexKeys, proof, currentConstraints,
                   currentVariables>>

---------------------------------------------------------------------------
(* The validators and the stateless RealMarlinSystem called directly: a    *)
(* behaviour starts with the arguments of one call and the action runs it. *)

\* marlin-simulator.js: validateCircuitConstraints('custom', witness,
\* publicInput, circuitData)
SimValidateCustom ==
    /\ impl = "sim" /\ call.op = "validateCustom" /\ ~call.done
    /\ call' = Returned(call.op, call.in,
                   SimValidateCircuitConstraints("custom", Obj(<< >>),
                                                 Obj(<< >>), call.in))
    /\ UNCHANGED pipeline

\* part_000: validateCircuitConstraints(variables, constraints) with the
\* default circuitType 'custom'
RealValidateCustom ==
    /\ impl = "real" /\ call.op = "validateCustom" /\ ~call.done
    /\ call' = Returned(call.op, call.in,
                   RealValidateCircuitConstraints(call.in.variables,
                                                  call.in.constraints, "custom"))
    /\ UNCHANGED pipeline

\* part_000: validateCircuitConstraints(variables, constraints,
\* 'multiplication')
RealValidateMultiplication ==
    /\ impl = "real" /\ call.op = "validateMultiplication" /\ ~call.done
    /\ call' = Returned(call.op, call.in,
                   RealValidateCircuitConstraints(call.in.variables,
                                                  call.in.constraints,
                                                  "multiplication"))
    /\ UNCHANGED pipeline

\* part_000: validateCircuitConstraints(variables, constraints, 'quadratic')
RealValidateQuadratic ==
    /\ impl = "real" /\ call.op = "validateQuadratic" /\ ~call.done
    /\ call' = Returned(call.op, call.in,
                   RealValidateCircuitConstraints(call.in.variables,
                                                  call.in.constraints,
                                                  "quadratic"))
    /\ UNCHANGED pipeline

\* the integers handed to simulateFullDemo as the claimed product
DemoClaims(a, b) == Nums \cup {Num(15), Mul(a, b)}

\* part_000: simulateFullDemo(a, b, c) on a RealMarlinSystem, which keeps
\* no state; total_ms spans the four stages' delays
BaseFullDemo ==
    /\ impl = "base" /\ call.op = "fullDemo" /\ ~call.done
    /\ \E setup_time \in RandomInt(10, 30), index_time \in RandomInt(3, 10),
          proof_time \in RandomInt(15, 20), verify_time \in RandomInt(3, 8),
          totalTime \in RandomInt(300, 601) :
         call' = Returned(call.op, call.in,
                     BaseFullDemoResult(call.in[1], call.in[2], call.in[3],
                                        <<setup_time, index_time, proof_time,
                                          verify_time, totalTime>>))
    /\ UNCHANGED pipeline

\* the constraint counts a caller stores in this.currentConstraints: around
\* the steps of the two sizing functions
ConstraintCounts ==
    {0, 1, 2, 3, 4, 99, 100, 101, 399, 400, 401, 1599, 1600, 1601, 2000,
     10000, 10001, 20000}

\* marlin-simulator.js: two calls of simulateProofGeneration, the caller
\* having stored the first count in this.currentConstraints before the
\* first call and storing the second before the second call
SimProveSized ==
    /\ impl = "sim" /\ call.op = "proveSized" /\ ~call.done
    /\ currentConstraints = call.in[1]
    /\ \E witness \in {Obj([a |-> Num(1), b |-> Num(1)]), Undef} :
         LET first == ProofOf(currentConstraints, witness, Obj(<< >>))
         IN /\ currentConstraints' = call.in[2]
            /\ proof' = ProofOf(currentConstraints', witness, Obj(<< >>))
            /\ call' = Returned(call.op, call.in, <<first, proof'>>)
    /\ UNCHANGED <<impl, universalSRS, indexKeys, currentVariables,
                   executionLog>>

\* the expressions handed to evaluateExpression: a constraint's operands,
\* and null and NaN
Expressions == Operands \cup {Null, NaN}

\* variables objects whose names include one that parses as a number
EvaluateBindings == UNION {[S -> Nums] : S \in SUBSET {"x", "1"}}

\* part_000: evaluateExpression(expr, variables)
RealEvaluate ==
    /\ impl = "real" /\ call.op = "evaluate" /\ ~call.done
    /\ call' = Returned(call.op, call.in,
                   evaluateExpression(call.in.expr, call.in.variables))
    /\ UNCHANGED pipeline

\* validateCircuitConstraints called with variables or constraints left
\* undefined
UncheckedArgs ==
    {[variables |-> v, noVariables |-> nv, constraints |-> cs,
      noConstraints |-> nc, circuitType |-> ty] :
        v \in {<< >>}, nv \in BOOLEAN,
        cs \in {<< >>, << Constraint(Num(1), Num(1), Num(1)) >>,
                << Constraint(Str("1"), Str("1"), Str("1")) >>,
                << Constraint(Num(0), Num(1), Num(0)),
                   Constraint(Str("x"), Num(1), Num(1)) >>},
        nc \in BOOLEAN,
        ty \in {"custom", "multiplication", "quadratic"}}

\* part_000: validateCircuitConstraints(variables, constraints,
\* circuitType) on arguments that may be undefined
RealValidateUncheckedArgs ==
    /\ impl = "real" /\ call.op = "validate" /\ ~call.done
    /\ call' = Returned(call.op, call.in,
                   RealValidateUnchecked(call.in.variables, call.in.noVariables,
                                         call.in.constraints,
                                         call.in.noConstraints,
                                         call.in.circuitType))
    /\ UNCHANGED pipeline

ValidatorArgs(variables, constraints) ==
    [variables |-> variables, constraints |-> constraints]

InitValidate ==
    \/ /\ Constructed("sim")
       /\ \E circuitData \in CustomData :
            call = Calling("validateCustom", circuitData)
    \/ /\ impl = "sim"
       /\ universalSRS = Null /\ indexKeys = Null /\ proof = Null
       /\ currentVariables = 50 /\ executionLog = << >>
       /\ \E n1 \in ConstraintCounts, n2 \in ConstraintCounts :
            /\ currentConstraints = n1
            /\ call = Calling("proveSized", <<n1, n2>>)
    \/ /\ Constructed("real")
       /\ \/ \E variables \in Bindings, constraints \in ConstraintLists :
               call = Calling("validateCustom",
                              ValidatorArgs(variables, constraints))
          \/ \E variables \in Bindings, constraints \in PoolLists :
               call = Calling("validateMultiplication",
                              ValidatorArgs(variables, constraints))
          \/ \E variables \in QuadraticBindings :
               call = Calling("validateQuadratic",
                              ValidatorArgs(variables, << >>))
          \/ \E args \in UncheckedArgs :
               /\ args.noConstraints => args.constraints = << >>
               /\ call = Calling("validate", args)
          \/ \E expr \in Expressions, variables \in EvaluateBindings :
               call = Calling("evaluate",
                              [expr |-> expr, variables |-> variables])
    \/ /\ Constructed("base")
       /\ \E a \in DemoNums, b \in DemoNums :
            \E c \in DemoClaims(a, b) : call = Calling("fullDemo", <<a, b, c>>)

NextValidate ==
    \/ BaseFullDemo
    \/ SimProveSized
    \/ RealEvaluate
    \/ RealValidateUncheckedArgs
    \/ SimValidateCustom
    \/ RealValidateCustom
    \/ RealValidateMultiplication
    \/ RealValidateQuadratic

SpecValidate == InitValidate /\ [][NextValidate]_vars

---------------------------------------------------------------------------
(* Claims about the custom validators, checked under SpecValidate *)

\* a completed call of the custom validator
CustomValidated == call.done /\ call.op = "validateCustom"

\* marlin-simulator.js reaches its constraint loops only when circuitData
\* has constraints and at least one public or private variable
SimWellFormed(circuitData) ==
    /\ ~circuitData.isNull
    /\ circuitData.hasConstraints
    /\ circuitData.hasVariables
    /\ CountType(circuitData.variables, "public")
         + CountType(circuitData.variables, "private") > 0

\* the call's constraint list is one the validator gets to check
Checkable == impl = "sim" => SimWellFormed(call.in)

\* the result reports the failure k for constraint number i
Reports(k, i) ==
    IF impl = "real"
    THEN /\ ~call.out.isValid
         /\ \E j \in 1..Len(call.out.errors) :
              /\ call.out.errors[j].k = k
              /\ call.out.errors[j].args[1] = Num(i)
    ELSE /\ ~call.out.valid
         /\ call.out.reason.k = k
         /\ Len(call.out.reason.args) > 0
         /\ call.out.reason.args[1] = Num(i)

\* the result reports some failure for constraint number i
ReportsAny(i) ==
    IF impl = "real"
    THEN \E j \in 1..Len(call.out.errors) : call.out.errors[j].args[1] = Num(i)
    ELSE /\ ~call.out.valid
         /\ Len(call.out.reason.args) > 0
         /\ call.out.reason.args[1] = Num(i)

Passed == IF impl = "real" THEN call.out.isValid ELSE call.out.valid

\* the operand is the number k, written as a literal or as a string
Denotes(v, k) == v = Num(k) \/ (v.t = "str" /\ v.s # "" /\ ParseFloat(v.s) = Num(k))

Numeric(v) == \E k \in 0..MaxNum : Denotes(v, k)

\* C5: a constraint {left: 1, right: 1, output: 0}, as numeric literals or
\* as numeric strings, always makes custom validation fail with the
\* contradiction error for that constraint, whatever the other constraints
\* of the list are.
C5_ContradictionAlwaysReported ==
    (CustomValidated /\ Checkable) =>
        \A i \in 1..Len(call.in.constraints) :
            LET c == call.in.constraints[i]
            IN (Denotes(c.left, 1) /\ Denotes(c.right, 1) /\ Denotes(c.output, 0))
                   => Reports("Contradiction", i)

\* C6: a constraint with left = 0 and output = k fails for every k # 0 and
\* passes for k = 0, for every numeric right operand, the operands being
\* numeric literals or numeric strings.
C6_ZeroAbsorption ==
    (CustomValidated /\ Checkable /\ Len(call.in.constraints) = 1) =>
        LET c == call.in.constraints[1]
        IN (Denotes(c.left, 0) /\ Numeric(c.right) /\ Numeric(c.output))
               => (Passed <=> Denotes(c.output, 0))

\* C7: custom validation of an empty constraint list is never valid: it
\* fails with the 'no constraints defined' error.
C7_EmptyListRejected ==
    (CustomValidated /\ Len(call.in.constraints) = 0) =>
        /\ ~Passed
        /\ IF impl = "real"
           THEN \E j \in 1..Len(call.out.errors) :
                    call.out.errors[j].k = "NoConstraints"
           ELSE call.out.reason.k = "NoConstraints"

\* the constraint on its own is rejected by part_000's validator
RealRejects(c, variables) == RealCustomStep(c, 1, variables) # << >>

\* the constraint on its own is rejected by the format loop, and by the
\* satisfaction loop, of marlin-simulator.js
SimFormatRejects(c) == SimFormatLoop(<<c>>, 1) # << >>
SimSatisfactionRejects(c) == ~simulateConstraintSatisfaction(<<c>>, 1).valid
SimRejects(c) == SimFormatRejects(c) \/ SimSatisfactionRejects(c)

\* the numbers of the constraints of the call that fail on their own
Failing ==
    {i \in 1..Len(call.in.constraints) :
        IF impl = "real"
        THEN RealRejects(call.in.constraints[i], call.in.variables)
        ELSE SimRejects(call.in.constraints[i])}

Least(S) == CHOOSE m \in S : \A n \in S : m <= n

C9_IncompleteIffMissing ==
    (CustomValidated /\ Checkable /\ Len(call.in.constraints) = 1) =>
        LET c == call.in.constraints[1]
        IN Reports("Incomplete", 1)
               <=> (c.left = Undef \/ c.right = Undef \/ c.output = Undef)

---------------------------------------------------------------------------
(* The pipeline *)

Init == \E i \in {"sim", "real", "rust"} : Constructed(i) /\ call = NoCall

Next ==
    \/ SimSetup
    \/ SimIndex
    \/ SimProve
    \/ SimVerify
    \/ SimReset
    \/ RealSetup
    \/ RealIndex
    \/ RealProve
    \/ RealVerify
    \/ RealFullDemo
    \/ RealCircuitVerification
    \/ RealReset
    \/ RustSetup
    \/ RustIndex
    \/ RustProve
    \/ RustVerify
    \/ RustReset

Spec == Init /\ [][Next]_vars

---------------------------------------------------------------------------
(* Claims about fullDemo on a RealMarlinSystem, checked under SpecValidate *)

\* a completed fullDemo(a, b, c)
DemoRan == impl = "base" /\ call.done /\ call.op = "fullDemo"

\* C2: for all integers a and b, fullDemo(a, b, a*b) reports a successful
\* proof verification, not only for the default witness a = 3, b = 5.
C2_FullDemoOfProductVerifies ==
    (DemoRan /\ call.in[3] = Mul(call.in[1], call.in[2])) =>
        /\ call.out.is_constraint_satisfied
        /\ call.out.proof_verification

\* C3: for all integers a, b, c with c # a*b, fullDemo(a, b, c) reports
\* isConstraintSatisfied = false and the verification verdict is a failure.
C3_FullDemoOfWrongProductFails ==
    (DemoRan /\ call.in[3] # Mul(call.in[1], call.in[2])) =>
        /\ ~call.out.is_constraint_satisfied
        /\ ~call.out.proof_verification

---------------------------------------------------------------------------
(* Claims about evaluateExpression, checked under SpecValidate *)

\* a completed evaluateExpression(expr, variables)
Evaluated == impl = "real" /\ call.done /\ call.op = "evaluate"

\* the string is a numeral of the model
ParsesAsNumber(str) == \E k \in 0..MaxNum : Denotes(Str(str), k)

\* C11: evaluate(expr, bindings) returns expr unchanged when expr is a
\* number; bindings[expr] when expr is a string that is a key of bindings,
\* even when the string also parses as a number; otherwise the parsed number
\* when the string parses as one; and 0 in every other case.  It returns a
\* value (it does not throw) and leaves bindings as they were.
C11_EvaluateCases ==
    Evaluated =>
        LET expr == call.in.expr
            bindings == call.in.variables
        IN /\ call.out \in {NaN} \cup {Num(k) : k \in 0..MaxNum}
           /\ expr.t \in {"num", "nan"} => call.out = expr
           /\ (expr.t = "str" /\ expr.s \in DOMAIN bindings)
                  => call.out = bindings[expr.s]
           /\ (expr.t = "str" /\ expr.s \notin DOMAIN bindings
                 /\ ParsesAsNumber(expr.s))
                  => Denotes(expr, call.out.n) /\ call.out.t = "num"
           /\ (expr.t \notin {"num", "nan", "str"}
                 \/ (expr.t = "str" /\ expr.s \notin DOMAIN bindings
                       /\ ~ParsesAsNumber(expr.s)))
                  => call.out = Num(0)

\* C11's case: a string that parses as a number and is bound to another
\* number has been evaluated
C11_Witness ==
    /\ Evaluated
    /\ call.in.expr = Str("1")
    /\ "1" \in DOMAIN call.in.variables
    /\ call.in.variables["1"] # Num(1)
    /\ call.out = call.in.variables["1"]

---------------------------------------------------------------------------
(* Claims about malformed validator input, checked under SpecValidate *)

\* a completed validator call on arguments that may be undefined
ValidatedUnchecked == impl = "real" /\ call.done /\ call.op = "validate"

\* C15: constraint validation never throws: for every input, a missing or
\* malformed variables object or constraint list included, the validator
\* returns a result value, and for a missing constraint list that value has
\* isValid = false and describes the failure.
C15_ValidationNeverThrows ==
    /\ ValidatedUnchecked =>
          /\ call.out # Thrown("TypeError")
          /\ call.in.noConstraints =>
                (~call.out.isValid /\ Len(call.out.errors) > 0)
    /\ (impl = "sim" /\ CustomValidated) =>
          /\ call.out # Thrown("TypeError")
          /\ (call.in.isNull \/ ~call.in.hasConstraints \/ ~call.in.hasVariables)
                => (~call.out.valid /\ call.out.reason # EmptyStr)

---------------------------------------------------------------------------
(* Claims about the pipeline, checked under Spec *)

\* the log holds an entry of the stage
Logged(stage) ==
    \E j \in 1..Len(executionLog) : executionLog[j].message = stage

\* a step that keeps every field of the instance
InstanceUnchanged == UNCHANGED pipeline

\* a step of the stage on the implementation: every step records its
\* operation in `call`
Stage(i, stage) == impl = i /\ call'.op = stage

MultiplicationVerified ==
    /\ call.done
    /\ \/ /\ impl = "sim" /\ call.op = "verify"
          /\ call.in.circuitType = "multiplication"
          /\ call.in.proof # Null
          /\ call.in.proof.witness \in MulWitnesses
          /\ call.in.publicInput \in {Obj([c |-> v]) : v \in Nums}
       \/ /\ impl = "real" /\ call.op = "circuitVerification"
          /\ call.in[3] = "multiplication"
          /\ call.in[1] \in MulWitnesses
          /\ call.in[2] \in {Obj([c |-> v]) : v \in Nums}

\* the witness and the public input of that verification
VerifiedWitness == IF impl = "sim" THEN call.in.proof.witness ELSE call.in[1]
VerifiedPublic == IF impl = "sim" THEN call.in.publicInput ELSE call.in[2]

\* the failure entries among the checks performed
FailureChecks ==
    {j \in 1..Len(call.out.checksPerformed) :
        call.out.checksPerformed[j].k \in {"ConstraintFailed", "Failed"}}

\* C4: for the multiplication circuit, verify reports isValid = true exactly
\* when a * b = c, for all integers a, b, c including 0; when a * b # c it
\* reports exactly one error giving the computed product and the claimed value.
C4_MultiplicationValidIffProduct ==
    MultiplicationVerified =>
        LET a == VerifiedWitness.p.a
            b == VerifiedWitness.p.b
            c == VerifiedPublic.p.c
        IN /\ call.out.isValid <=> (a.n * b.n = c.n)
           /\ ~call.out.isValid =>
                /\ Cardinality(FailureChecks) = 1
                /\ call.out.failureReason.k = "MultiplicationFailed"
                /\ call.out.failureReason.args = <<a, b, Num(a.n * b.n), c>>

\* a completed verification that repeats the call before it: the same stored
\* proof, publicInput, circuitType and circuitData
VerificationRepeated ==
    /\ call.again
    /\ \/ impl = "sim" /\ call.op = "verify"
       \/ impl = "real" /\ call.op = "circuitVerification"

C12_SetupReplacesOnlyTheSRS ==
    [][ /\ Stage("sim", "setup")
           => /\ universalSRS' = call'.out
              /\ universalSRS'.maxDegree =
                    2 * Max(call'.in[1], Max(call'.in[2], call'.in[3]))
              /\ indexKeys' = indexKeys
              /\ proof' = proof
        /\ (Stage("sim", "verify") /\ proof # Null)
           => /\ call'.in.proof = proof
              /\ call'.out.failureReason # Msg("TypeError", << >>)
              /\ proof' = proof
      ]_vars

\* C12's case: setup has been called with keys and a proof in store
C12_Witness ==
    /\ impl = "sim" /\ call.op = "setup"
    /\ universalSRS = call.out
    /\ indexKeys # Null /\ proof # Null

\* the implementations that keep an execution log
Logging == impl \in {"real", "rust"}

\* the call of the step completed: its promise was not rejected
Completed == call'.out \notin {Thrown("TypeError"), Thrown("Error")}

\* every entry of the log is still there, unchanged and in its place
LogKept ==
    /\ Len(executionLog') >= Len(executionLog)
    /\ SubSeq(executionLog', 1, Len(executionLog)) = executionLog

\* C13: the execution log is append-only: over any sequence of stage calls
\* its length never decreases and no existing entry is changed or reordered,
\* each completed stage call adds at least one entry, and only an explicit
\* reset empties it: after reset the log is empty.
C13_LogAppendOnlyUntilReset ==
    [][ Logging =>
          /\ call'.op # "reset" => LogKept
          /\ (call'.op \in {"setup", "index", "prove", "verify"} /\ Completed)
                => Len(executionLog') > Len(executionLog)
          /\ call'.op = "reset" => executionLog' = << >>
      ]_vars

\* C14: a stage call is atomic with respect to pipeline state: if it fails
\* (the bridge request rejects or the stage throws), the stored SRS,
\* IndexKeys, ProofArtifact, circuit-size fields and execution log are
\* exactly what they were before the call.
C14_FailedStageChangesNothing ==
    [][ (call'.op \in {"setup", "index", "prove", "verify"} /\ ~Completed)
           => InstanceUnchanged
      ]_vars

\* a completed verification: simulateVerification of marlin-simulator.js or
\* simulateCircuitVerification of part_000
VerificationDone ==
    /\ call.done
    /\ \/ impl = "sim" /\ call.op = "verify"
       \/ impl = "real" /\ call.op = "circuitVerification"

\* the circuit type of that verification
VerifiedType == IF impl = "sim" THEN call.in.circuitType ELSE call.in[3]

\* the circuit types that have a rule of their own
KnownTypes == {"multiplication", "quadratic", "hash", "custom"}

\* the entries of checksPerformed written by the constraint step
ConstraintEntries ==
    {j \in 1..Len(call.out.checksPerformed) :
        call.out.checksPerformed[j] \notin
            {BasicChecks[k] : k \in 1..Len(BasicChecks)}}

\* C16: for a circuit type that is none of multiplication, quadratic, hash,
\* custom, verification passes trivially: isValid = true with a single
\* informational check entry for the constraint step; the known types are
\* never routed to this permissive default.
C16_DefaultTypePassesTrivially ==
    (VerificationDone /\ (impl = "sim" => call.in.proof # Null)) =>
        /\ VerifiedType \notin KnownTypes
              => /\ call.out.isValid
                 /\ call.out.failureReason = EmptyStr
                 /\ Cardinality(ConstraintEntries) = 1
        /\ VerifiedType \in KnownTypes
              => \A j \in ConstraintEntries :
                    call.out.checksPerformed[j].k # "TypePassed"

---------------------------------------------------------------------------
(* Claims about the sizing functions, checked under SpecValidate *)

\* two proofs have been generated, under the constraint counts call.in
ProvedSized == impl = "sim" /\ call.done /\ call.op = "proveSized"

\* size = 1024 + floor(sqrt(n) * 32), said without the square root
IsProofSize(size, n) ==
    LET scaled == size - 1024
    IN /\ scaled >= 0
       /\ scaled * scaled <= 32 * 32 * n
       /\ (scaled + 1) * (scaled + 1) > 32 * 32 * n

\* C17: the proof size is baseSize + floor(sqrt(numConstraints) * unitSize)
\* and is monotone: for n1 < n2 the size for n1 is at most the size for n2;
\* the size stored in a proof equals this function of the current
\* constraint count.
C17_ProofSize ==
    ProvedSized =>
        /\ \A j \in 1..2 : IsProofSize(call.out[j].size, call.in[j])
        /\ call.in[1] < call.in[2] => call.out[1].size <= call.out[2].size
        /\ IsProofSize(proof.size, currentConstraints)

\* C17's case: two proofs under different constraint counts whose sizes
\* differ, the second not a whole multiple of the unit above the base
C17_Witness ==
    /\ ProvedSized
    /\ call.in[1] < call.in[2]
    /\ call.out[1].size < call.out[2].size
    /\ (proof.size - 1024) % 32 # 0
    /\ currentConstraints = call.in[2]

\* count = clamp(floor(n / 100), 4, 16)
IsEvaluationCount(count, n) ==
    /\ count >= 4 /\ count <= 16
    /\ \/ count = n \div 100
       \/ count = 4 /\ n \div 100 < 4
       \/ count = 16 /\ n \div 100 > 16

\* C18: the evaluation count is clamp(floor(n / 100), 4, 16) for every
\* constraint count n >= 0: non-decreasing in n, always within 4..16, and
\* the number of evaluations in a generated proof equals it.
C18_EvaluationCount ==
    ProvedSized =>
        /\ \A j \in 1..2 :
              IsEvaluationCount(Len(call.out[j].evaluations), call.in[j])
        /\ call.in[1] < call.in[2]
              => Len(call.out[1].evaluations) <= Len(call.out[2].evaluations)
        /\ IsEvaluationCount(Len(proof.evaluations), currentConstraints)

\* C18's case: proofs under a count below the lower clamp and a count above
\* the upper clamp
C18_Witness ==
    /\ ProvedSized
    /\ call.in[1] \div 100 < 4 /\ call.in[2] \div 100 > 16
    /\ Len(call.out[1].evaluations) = 4
    /\ Len(proof.evaluations) = 16

---------------------------------------------------------------------------
(* Claims about the stages' results, checked under Spec *)

\* a setup call has returned a result that carries a maximum degree
SetupDone ==
    /\ call.done /\ call.op = "setup"
    /\ \/ "maxDegree" \in DOMAIN call.out
       \/ "max_degree" \in DOMAIN call.out

\* the maximum degree in the result of that setup call
SetupDegree ==
    IF impl = "sim" THEN call.out.maxDegree ELSE call.out.max_degree

\* C19: setup(numConstraints, numVariables, numNonZero) computes maxDegree =
\* max(numConstraints, numVariables, numNonZero) times a fixed scaling
\* constant (2, as marlin-simulator.js has it), in every implementation of
\* the setup stage.
C19_MaxDegreeIsScaledMaximum ==
    SetupDone =>
        SetupDegree = 2 * Max(call.in[1], Max(call.in[2], call.in[3]))

\* a verify call of marlin-simulator.js or part_000 has returned a result
VerifyReturned ==
    /\ impl \in {"sim", "real"}
    /\ call.done /\ call.op = "verify"
    /\ call.out # Thrown("TypeError")

\* C20: verify always records the four generic protocol checks first, in the
\* fixed order commitment, linear combination, query set, transcript
\* consistency, followed by exactly one constraint-verdict entry; the verdict
\* is computed from the witness that was passed to the prove call that
\* produced the proof, not from a fixed or default witness.
C20_FourChecksThenVerdictOfProvedWitness ==
    /\ (impl = "sim" /\ call.done /\ call.op = "prove")
          => proof.witness = call.in[1]
    /\ VerifyReturned =>
          /\ "checksPerformed" \in DOMAIN call.out
          /\ Len(call.out.checksPerformed) = Len(BasicChecks) + 1
          /\ SubSeq(call.out.checksPerformed, 1, Len(BasicChecks)) = BasicChecks
          /\ call.in.proof # Null =>
                call.out.isValid =
                    SimValidateCircuitConstraints(
                        call.in.circuitType, proof.witness,
                        call.in.publicInput, call.in.circuitData).valid

---------------------------------------------------------------------------
(* Claims about part_000's custom validator and about the artifacts,      *)
(* checked under SpecValidate                                              *)

\* part_000's custom validator has returned
RealCustomValidated == impl = "real" /\ CustomValidated

\* the constraint has its three operands
AllPresent(c) == c.left # Undef /\ c.right # Undef /\ c.output # Undef

\* the entries of the returned error list that are about constraint number i
ErrorsAbout(i) ==
    {j \in 1..Len(call.out.errors) : call.out.errors[j].args[1] = Num(i)}

\* C21: for each complete constraint the custom validator applies the rules
\* in the order (1) left = 1, right = 1, output = 0, (2) left = 0 and
\* output # 0, (3) left * right # output, stopping at the first that matches:
\* the constraint contributes at most one error, and it contributes none
\* exactly when left * right = output.
C21_RulesInOrderOneErrorEach ==
    RealCustomValidated =>
        \A i \in 1..Len(call.in.constraints) :
            LET c == call.in.constraints[i]
                leftVal == evaluateExpression(c.left, call.in.variables)
                rightVal == evaluateExpression(c.right, call.in.variables)
                outputVal == evaluateExpression(c.output, call.in.variables)
                contradiction ==
                    leftVal = Num(1) /\ rightVal = Num(1) /\ outputVal = Num(0)
                zeroTimes == leftVal = Num(0) /\ outputVal # Num(0)
                holds == StrictEq(Mul(leftVal, rightVal), outputVal)
            IN AllPresent(c) =>
                  /\ Cardinality(ErrorsAbout(i)) <= 1
                  /\ ErrorsAbout(i) = {} <=> holds
                  /\ contradiction => Reports("Contradiction", i)
                  /\ (~contradiction /\ zeroTimes) => Reports("ZeroTimes", i)
                  /\ (~contradiction /\ ~zeroTimes /\ ~holds)
                        => Reports("Mismatch", i)

\* the item counts of the rounds
Shape(rounds) == [j \in 1..Len(rounds) |-> Len(rounds[j])]

\* C22: the commitment rounds of a generated proof always have exactly three
\* rounds, with item counts [3, 2, 1] when numConstraints <= 10000 and
\* [4, 3, 1] when numConstraints > 10000; no other shape is produced.
C22_CommitmentRoundsShape ==
    ProvedSized =>
        /\ \A j \in 1..2 :
              Shape(call.out[j].commitments) =
                  IF call.in[j] > 10000 THEN <<4, 3, 1>> ELSE <<3, 2, 1>>
        /\ Shape(proof.commitments) =
              IF currentConstraints > 10000 THEN <<4, 3, 1>> ELSE <<3, 2, 1>>

\* C22's case: a proof under exactly 10000 constraints and one under more
C22_Witness ==
    /\ ProvedSized
    /\ call.in[1] = 10000 /\ call.in[2] > 10000
    /\ Shape(call.out[1].commitments) = <<3, 2, 1>>
    /\ Shape(proof.commitments) = <<4, 3, 1>>

\* C23: in every fullDemo(a, b, c) report the re-derived flag
\* is_constraint_satisfied and the verification verdict proof_verification
\* are equal, for all integers a, b, c.
C23_FullDemoFlagsAgree ==
    DemoRan => call.out.is_constraint_satisfied = call.out.proof_verification

---------------------------------------------------------------------------
(* Claims about the verification result, checked under Spec *)

\* the entries of checksPerformed that report a failure
FailureEntries ==
    {j \in 1..Len(call.out.checksPerformed) :
        call.out.checksPerformed[j].k \in
            {"ConstraintFailed", "Failed", "VerificationError"}}

\* what those entries carry, in the order of the list
RECURSIVE FailureParts(_)
FailureParts(j) ==
    IF j > Len(call.out.checksPerformed) THEN << >>
    ELSE IF j \in FailureEntries
         THEN <<call.out.checksPerformed[j].args[1]>> \o FailureParts(j + 1)
         ELSE FailureParts(j + 1)

\* the last entry of checksPerformed is a failure entry that carries the
\* failure reason
LastEntryCarriesReason ==
    LET n == Len(call.out.checksPerformed)
    IN /\ n \in FailureEntries
       /\ call.out.checksPerformed[n].args = <<call.out.failureReason>>

\* C24 as stated: every result of verify has isValid = true exactly when
\* failureReason is empty, and isValid = false exactly when the last entry
\* of checksPerformed is a failure entry carrying that failureReason.
C24_LastEntryCarriesReason ==
    VerificationDone =>
        /\ call.out.isValid <=> call.out.failureReason = EmptyStr
        /\ ~call.out.isValid <=> LastEntryCarriesReason

\* C24 as amended: isValid = true exactly when failureReason is empty and
\* exactly when checksPerformed has no failure entry; when isValid = false
\* the failure entries are the last entries of the list, and failureReason
\* is what they carry: the reason of the one entry, or for several entries
\* (part_000's custom circuits, an entry for each error) their reasons in
\* list order, joined.
C24_FailureEntriesCarryReason ==
    VerificationDone =>
        LET n == Len(call.out.checksPerformed)
            parts == FailureParts(1)
        IN /\ call.out.isValid <=> call.out.failureReason = EmptyStr
           /\ call.out.isValid <=> FailureEntries = {}
           /\ ~call.out.isValid =>
                 /\ FailureEntries = (n - Len(parts) + 1)..n
                 /\ IF Len(parts) = 1
                    THEN call.out.failureReason = parts[1]
                    ELSE /\ call.out.failureReason.k = "Join"
                         /\ call.out.failureReason.args = parts

\* C24's case: a failed verification of part_000 with two failure entries
C24_Witness ==
    /\ VerificationDone /\ impl = "real"
    /\ ~call.out.isValid
    /\ Cardinality(FailureEntries) = 2
    /\ call.out.failureReason.k = "Join"

===========================================================================
